---- MODULE Spec2Model ----
(***************************************************************************)
(* A model of the three Cartograph refactoring scripts.                    *)
(*                                                                         *)
(*   extract_canvas.py  copies three hard-coded line ranges of src/UI.cpp  *)
(*                      into a new file src/UI/CanvasPanel.cpp             *)
(*   clean_ui.py        finds four functions of src/UI.cpp by brace        *)
(*                      counting and deletes them                          *)
(*   update_refs.py     qualifies the moved state variables and the Tool   *)
(*                      enum in src/UI.cpp                                 *)
(*                                                                         *)
(* Spec      is extract_canvas.py followed by clean_ui.py on one UI.cpp.   *)
(*           A line of UI.cpp is a record [no, text]: text is the line's   *)
(*           sequence of tokens and no is the line's index in the          *)
(*           original file (it stands for the rest of the line's text,     *)
(*           which makes the lines of a file distinguishable).             *)
(* SpecRefs  is update_refs.py, run once or several times on a file whose  *)
(*           content is a sequence of characters.                          *)
(*                                                                         *)
(* Indices (i, j, start, end) are Python's: 0-based, slices half-open.     *)
(***************************************************************************)
EXTENDS Integers, Sequences, FiniteSets, TLC

VARIABLES
  ui_cpp,           \* src/UI.cpp as a sequence of lines (Spec)
  canvas_cpp,       \* src/UI/CanvasPanel.cpp as a sequence of lines
  lines,            \* clean_ui.py: lines
  remove_sections,  \* clean_ui.py: remove_sections, a sequence of <<start, end>>
  target,           \* clean_ui.py: which of the four scan loops is running (1..4)
  i,                \* clean_ui.py: i, the line of the signature
  j,                \* clean_ui.py: j, the line the inner loop is at
  brace_count,      \* clean_ui.py: brace_count
  found_open,       \* clean_ui.py: found_open
  output_lines,     \* clean_ui.py: output_lines
  stdout,           \* what clean_ui.py has printed
  pc,               \* position in the run of the scripts
  content,          \* update_refs.py: content, a sequence of characters
  ui_text,          \* src/UI.cpp as a sequence of characters (SpecRefs)
  loop_input,       \* update_refs.py: content as line 53 leaves it
  runs              \* how many times update_refs.py has run

vars == <<ui_cpp, canvas_cpp, lines, remove_sections, target, i, j, brace_count,
          found_open, output_lines, stdout, pc, content, ui_text, loop_input, runs>>

cleanVars == <<ui_cpp, canvas_cpp, lines, remove_sections, target, i, j,
               brace_count, found_open, output_lines, stdout>>

refsVars == <<content, ui_text, loop_input, runs>>

(***************************************************************************)
(* Bounds of the model.                                                    *)
(***************************************************************************)
\* The longest of the short documents, which are all sequences of line kinds.
MaxLines == 4

(***************************************************************************)
(* Program constants.                                                      *)
(***************************************************************************)
DetectWindow == 100
RenderWindow == 2000
LoadWindow == 100
UpdateWindow == 100

SigDetect == "bool UI::DetectEdgeHover("
SigRender == "void UI::RenderCanvasPanel("
SigLoad == "void UI::LoadEyedropperCursor("
SigUpdate == "void UI::UpdateCursor("

TargetName == <<"DetectEdgeHover", "RenderCanvasPanel", "LoadEyedropperCursor",
                "UpdateCursor">>
Signature == <<SigDetect, SigRender, SigLoad, SigUpdate>>
Window == <<DetectWindow, RenderWindow, LoadWindow, UpdateWindow>>
Targets == 1..4

(***************************************************************************)
(* Lines and Python's list and string operations on them.                  *)
(***************************************************************************)
Line(no, text) == [no |-> no, text |-> text]

Min(a, b) == IF a < b THEN a ELSE b

\* tok in line
Has(line, tok) == \E p \in 1..Len(line.text) : line.text[p] = tok

\* line.count(tok)
Count(line, tok) == Cardinality({p \in 1..Len(line.text) : line.text[p] = tok})

\* s[a:b] for 0 <= a, 0 <= b
Slice(s, a, b) == SubSeq(s, Min(a, Len(s)) + 1, Min(b, Len(s)))

\* del s[a:b] for 0 <= a, 0 <= b
DeleteSlice(s, a, b) ==
  IF Min(b, Len(s)) <= Min(a, Len(s)) THEN s
  ELSE SubSeq(s, 1, Min(a, Len(s))) \o SubSeq(s, Min(b, Len(s)) + 1, Len(s))


\* line.replace(old, new), token by token
ReplaceTok(line, old, new) ==
  Line(line.no, [p \in 1..Len(line.text) |-> IF line.text[p] = old THEN new
                                              ELSE line.text[p]])

\* line.lstrip(): the line without its leading whitespace tokens
LStrip(text) ==
  LET solid == {p \in 1..Len(text) : text[p] # " "}
  IN IF solid = {} THEN <<>>
     ELSE SubSeq(text, CHOOSE p \in solid : \A q \in solid : p <= q, Len(text))

(***************************************************************************)
(* extract_canvas.py                                                       *)
(***************************************************************************)
helper_start == 61
helper_end == 97
detect_start == 1973
detect_end == 2033
render_start == 2034
render_end == 3783

ToastMarker == "ShowToast("
ToastPlaceholder == "// TODO: Re-enable toast: "

\* A line the script writes itself.
Gen(str) == Line(-1, <<str>>)

Rule == "// ============================================================================"

Header ==
  << Gen("#include \"CanvasPanel.h\""), Gen("#include \"../App.h\""),
     Gen("#include <imgui.h>"), Gen("#include <imgui_internal.h>"),
     Gen("#include <cfloat>"), Gen("#include <cmath>"),
     Gen("#include <algorithm>"), Gen("#include <set>"),
     Gen("#include <cstring>"), Gen(""), Gen("namespace Cartograph {"),
     Gen(""), Gen(Rule), Gen("// Helper functions"), Gen(Rule), Gen(""),
     Gen("/**"),
     Gen(" * Get all tiles along a line from (x0, y0) to (x1, y1)."),
     Gen(" * Uses Bresenham's line algorithm to ensure continuous painting."),
     Gen(" */") >>

Middle ==
  << Gen(""), Gen(Rule), Gen("// CanvasPanel implementation"), Gen(Rule),
     Gen(""), Gen("CanvasPanel::CanvasPanel() {"), Gen("}"), Gen(""),
     Gen("CanvasPanel::~CanvasPanel() {"), Gen("}"), Gen("") >>

Footer == << Gen(""), Gen("} // namespace Cartograph") >>

helper_lines(ui_lines) == Slice(ui_lines, helper_start, helper_end)
detect_lines(ui_lines) == Slice(ui_lines, detect_start, detect_end)
render_lines(ui_lines) == Slice(ui_lines, render_start, render_end)

AdaptHelper(line) == ReplaceTok(line, "static std::vector", "std::vector")

AdaptDetect(line) ==
  ReplaceTok(line, SigDetect, "bool CanvasPanel::DetectEdgeHover(")

AdaptRender(line) ==
  LET a == ReplaceTok(line, SigRender, "void CanvasPanel::Render(")
      b == ReplaceTok(a, "showPropertiesPanel = !showPropertiesPanel",
                      "*showPropertiesPanel = !(*showPropertiesPanel)")
      c == ReplaceTok(b, "m_layoutInitialized = false",
                      "*layoutInitialized = false")
  IN IF Has(c, ToastMarker)
     THEN Line(c.no, <<ToastPlaceholder>> \o LStrip(c.text))
     ELSE c

AdaptedHelper(ui_lines) ==
  [k \in 1..Len(helper_lines(ui_lines)) |-> AdaptHelper(helper_lines(ui_lines)[k])]
AdaptedDetect(ui_lines) ==
  [k \in 1..Len(detect_lines(ui_lines)) |-> AdaptDetect(detect_lines(ui_lines)[k])]
AdaptedRender(ui_lines) ==
  [k \in 1..Len(render_lines(ui_lines)) |-> AdaptRender(render_lines(ui_lines)[k])]

CanvasPanelCpp(ui_lines) ==
  Header \o AdaptedHelper(ui_lines) \o Middle \o AdaptedDetect(ui_lines)
    \o <<Gen("")>> \o AdaptedRender(ui_lines) \o Footer

ExtractCanvas ==
  /\ pc = "extract"
  /\ canvas_cpp' = CanvasPanelCpp(ui_cpp)
  /\ pc' = "read"
  /\ UNCHANGED <<ui_cpp, lines, remove_sections, target, i, j, brace_count,
                 found_open, output_lines, stdout>>
  /\ UNCHANGED refsVars

(***************************************************************************)
(* clean_ui.py                                                             *)
(***************************************************************************)
Msg(msg, name, a, b) == [msg |-> msg, name |-> name, a |-> a, b |-> b]

ReadUI ==
  /\ pc = "read"
  /\ lines' = ui_cpp
  /\ remove_sections' = <<>>
  /\ target' = 1
  /\ pc' = "find"
  /\ UNCHANGED <<ui_cpp, canvas_cpp, i, j, brace_count, found_open,
                 output_lines, stdout>>
  /\ UNCHANGED refsVars

\* The lines that hold the signature of target t.
SignatureLines(ls, t) == {k \in 0..(Len(ls) - 1) : Has(ls[k + 1], Signature[t])}

FirstOf(S) == CHOOSE k \in S : \A m \in S : k <= m

\* A scan that forgets its window: range(i, len(lines)).
ScanToEnd(start, w, n) == n

\* range(i, min(i + W, len(lines))) ends before this
ScanLimit(start, w, n) == Min(start + w, n)

\* found_open after the line
OpenAfter(open, line) == open \/ Has(line, "{")

\* brace_count after the line, had the closing braces been counted only on
\* lines without an opening brace (an elif).
CountAfterElif(count, line) ==
  IF Has(line, "{") THEN count + Count(line, "{") ELSE count - Count(line, "}")

\* brace_count after the line
CountAfter(count, line) ==
  (IF Has(line, "{") THEN count + Count(line, "{") ELSE count) - Count(line, "}")

\* The outer loop's pass is over (its break, or no line matched).
AfterTarget ==
  IF target < 4 THEN target' = target + 1 /\ pc' = "find"
  ELSE target' = target /\ pc' = "sort"

FindSignature ==
  /\ pc = "find"
  /\ IF SignatureLines(lines, target) = {}
     THEN /\ AfterTarget
          /\ UNCHANGED <<i, j, brace_count, found_open>>
     ELSE /\ i' = FirstOf(SignatureLines(lines, target))
          /\ j' = i'
          /\ brace_count' = 0
          /\ found_open' = FALSE
          /\ pc' = "scan"
          /\ target' = target
  /\ UNCHANGED <<ui_cpp, canvas_cpp, lines, remove_sections, output_lines, stdout>>
  /\ UNCHANGED refsVars

ScanLine ==
  /\ pc = "scan"
  /\ found_open' = OpenAfter(found_open, lines[j + 1])
  /\ brace_count' = CountAfter(brace_count, lines[j + 1])
  /\ IF found_open' /\ brace_count' = 0
     THEN /\ remove_sections' = Append(remove_sections, <<i, j + 1>>)
          /\ stdout' = Append(stdout, Msg("Found", TargetName[target], i + 1, j + 1))
          /\ AfterTarget
          /\ j' = j
     ELSE /\ UNCHANGED <<remove_sections, stdout>>
          /\ IF j + 1 < ScanLimit(i, Window[target], Len(lines))
             THEN j' = j + 1 /\ pc' = "scan" /\ target' = target
             ELSE j' = j /\ AfterTarget
  /\ UNCHANGED <<ui_cpp, canvas_cpp, lines, i, output_lines>>
  /\ UNCHANGED refsVars

\* Python's order on tuples
TupleLess(a, b) == a[1] < b[1] \/ (a[1] = b[1] /\ a[2] < b[2])

RECURSIVE InsertDescending(_, _)
InsertDescending(s, x) ==
  IF s = <<>> THEN <<x>>
  ELSE IF TupleLess(Head(s), x) THEN <<x>> \o s
  ELSE <<Head(s)>> \o InsertDescending(Tail(s), x)

RECURSIVE SortFrom(_, _, _)
SortFrom(s, k, acc) ==
  IF k > Len(s) THEN acc ELSE SortFrom(s, k + 1, InsertDescending(acc, s[k]))

\* remove_sections left in the order the scans recorded it.
SortSkipped(s) == s

\* remove_sections.sort(reverse=True)
SortDescending(s) == SortFrom(s, 1, <<>>)

SortSections ==
  /\ pc = "sort"
  /\ remove_sections' = SortDescending(remove_sections)
  /\ pc' = "remove"
  /\ UNCHANGED <<ui_cpp, canvas_cpp, lines, target, i, j, brace_count,
                 found_open, output_lines, stdout>>
  /\ UNCHANGED refsVars

RECURSIVE RemoveFrom(_, _, _)
RemoveFrom(out, sections, k) ==
  IF k > Len(sections) THEN out
  ELSE RemoveFrom(DeleteSlice(out, sections[k][1], sections[k][2]), sections, k + 1)

\* for start, end in remove_sections: del output_lines[start:end]
RemoveAll(out, sections) == RemoveFrom(out, sections, 1)

RemoveSections ==
  /\ pc = "remove"
  /\ output_lines' = RemoveAll(lines, remove_sections)
  /\ stdout' = stdout \o [k \in 1..Len(remove_sections) |->
                            Msg("Removing", "", remove_sections[k][1] + 1,
                                remove_sections[k][2])]
  /\ pc' = "write"
  /\ UNCHANGED <<ui_cpp, canvas_cpp, lines, remove_sections, target, i, j,
                 brace_count, found_open>>
  /\ UNCHANGED refsVars

WriteBack ==
  /\ pc = "write"
  /\ ui_cpp' = output_lines
  /\ stdout' = stdout \o << Msg("Original", "", Len(lines), 0),
                            Msg("New", "", Len(output_lines), 0),
                            Msg("Removed", "", Len(lines) - Len(output_lines), 0) >>
  /\ pc' = "done"
  /\ UNCHANGED <<canvas_cpp, lines, remove_sections, target, i, j, brace_count,
                 found_open, output_lines>>
  /\ UNCHANGED refsVars


(***************************************************************************)
(* The documents the scripts are run on.                                   *)
(***************************************************************************)
Plain == <<"x">>

\* The kinds of line of the short documents.
LineKinds ==
  { Plain, <<"{">>, <<"}">>, <<"}", "{">>,
    <<SigDetect, "{">>, <<SigUpdate>>, <<SigRender, "{", "}">>, <<SigLoad, "{">> }

MkDoc(texts) == [k \in 1..Len(texts) |-> Line(k - 1, texts[k])]

Rep(n, text) == [k \in 1..n |-> text]

\* Every document of at most MaxLines lines of these kinds.
ShortDocs == {MkDoc(texts) : texts \in UNION {[1..n -> LineKinds] : n \in 0..MaxLines}}

\* A block whose closing brace is gap + 1 lines below its signature.
WindowDoc(t, gap) ==
  MkDoc(<< <<Signature[t], "{">> >> \o Rep(gap, Plain) \o << <<"}">>, Plain >>)

\* Blocks that end on the last line of the scan window, and one line after it.
WindowDocs == {WindowDoc(t, Window[t] - 2 + d) : t \in Targets, d \in 0..1}

HelperBlock ==
  << <<"static std::vector", "{">> >> \o Rep(helper_end - helper_start - 2, Plain)
    \o << <<"}">> >>

DetectBlock ==
  << <<SigDetect, "{">>, <<" ", "{">>, <<" ", ToastMarker>>, <<" ", "}">> >>
    \o Rep(detect_end - detect_start - 5, Plain) \o << <<"}">> >>

RenderBlock ==
  << <<SigRender>>, <<"{">>, <<" ", ToastMarker>>,
     <<" ", "showPropertiesPanel = !showPropertiesPanel">>,
     <<" ", "m_layoutInitialized = false">>, <<" ", "{", "}">> >>
    \o Rep(render_end - render_start - 7, Plain) \o << <<"}">> >>

LoadBlock == << <<SigLoad, "{">>, Plain, <<"}">> >>

UpdateBlock == << <<SigUpdate>>, <<"{">>, Plain, <<"}">> >>

\* UI.cpp as the line numbers of extract_canvas.py describe it, moved down by
\* shift lines.
LayoutDoc(shift) ==
  MkDoc(Rep(helper_start + shift, Plain) \o HelperBlock
        \o Rep(detect_start - helper_end, Plain) \o DetectBlock
        \o Rep(render_start - detect_end, Plain) \o RenderBlock
        \o <<Plain>> \o LoadBlock \o <<Plain>> \o UpdateBlock)

LayoutDocs == {LayoutDoc(shift) : shift \in 0..1}

Docs == ShortDocs \cup WindowDocs \cup LayoutDocs

(***************************************************************************)
(* extract_canvas.py, then clean_ui.py.                                    *)
(***************************************************************************)
Init ==
  /\ ui_cpp \in Docs
  /\ canvas_cpp = <<>>
  /\ lines = <<>>
  /\ remove_sections = <<>>
  /\ target = 1
  /\ i = 0
  /\ j = 0
  /\ brace_count = 0
  /\ found_open = FALSE
  /\ output_lines = <<>>
  /\ stdout = <<>>
  /\ pc = "extract"
  /\ content = <<>>
  /\ ui_text = <<>>
  /\ loop_input = <<>>
  /\ runs = 0

Next ==
  \/ ExtractCanvas
  \/ ReadUI
  \/ FindSignature
  \/ ScanLine
  \/ SortSections
  \/ RemoveSections
  \/ WriteBack

Spec == Init /\ [][Next]_vars


(***************************************************************************)
(* What the claims about clean_ui.py and extract_canvas.py speak of.       *)
(***************************************************************************)
\* clean_ui.py has printed that it found target t.
FoundMsgs(t) ==
  {k \in 1..Len(stdout) : stdout[k].msg = "Found" /\ stdout[k].name = TargetName[t]}

Recorded(t) == FoundMsgs(t) # {}

\* The span it recorded for target t, as the message gives it.
SpanOf(t) ==
  LET m == stdout[CHOOSE k \in FoundMsgs(t) : TRUE] IN <<m.a - 1, m.b>>

HasSignature(t) == SignatureLines(lines, t) # {}

SigLine(t) == CHOOSE k \in SignatureLines(lines, t) :
                \A m \in SignatureLines(lines, t) : k <= m

\* One past the last line of the scan window of target t.
WindowEnd(t) ==
  IF SigLine(t) + Window[t] < Len(lines) THEN SigLine(t) + Window[t] ELSE Len(lines)

\* The places <<line, token>> of a brace in the scan window of target t.
BracePositions(t, brace) ==
  UNION {{<<k, p>> : p \in {q \in 1..Len(lines[k + 1].text) : lines[k + 1].text[q] = brace}} :
           k \in SigLine(t)..(WindowEnd(t) - 1)}

Before(a, b) == a[1] < b[1] \/ (a[1] = b[1] /\ a[2] < b[2])

\* The window's lines at whose end as many braces have closed as have opened
\* since the signature line, one at least having opened.
ZeroLines(t) ==
  LET opens == BracePositions(t, "{")
      closes == BracePositions(t, "}")
      start == SigLine(t)
      end == WindowEnd(t)
  IN {z \in start..(end - 1) :
        /\ \E o \in opens : o[1] <= z
        /\ Cardinality({o \in opens : o[1] <= z}) = Cardinality({c \in closes : c[1] <= z})}

Overlap(a, b) == a[1] < b[2] /\ b[1] < a[2]

NonOverlapping(sections) ==
  \A k, m \in 1..Len(sections) : k # m => ~Overlap(sections[k], sections[m])

Covered(sections) ==
  {k \in 0..(Len(lines) - 1) :
     \E m \in 1..Len(sections) : sections[m][1] <= k /\ k < sections[m][2]}

RECURSIVE SumSizes(_, _)
SumSizes(sections, k) ==
  IF k > Len(sections) THEN 0
  ELSE (sections[k][2] - sections[k][1]) + SumSizes(sections, k + 1)

Range(s) == {s[k] : k \in 1..Len(s)}

\* The spans in the order the scans recorded them.
CollectedStarts ==
  LET found == SelectSeq(stdout, LAMBDA m : m.msg = "Found")
  IN [k \in 1..Len(found) |-> found[k].a - 1]

\* The spans in the order they were deleted.
Removals == SelectSeq(stdout, LAMBDA m : m.msg = "Removing")

\* C1: once the spans are deleted, if they are pairwise non-overlapping, then
\* they were deleted in descending order of start, the document is shorter by
\* the sum of their sizes, and it consists of exactly the lines no span
\* covers, unaltered and in their original order.
C1_Excision ==
  (pc \in {"write", "done"} /\ NonOverlapping(remove_sections)) =>
    /\ Len(Removals) = Len(remove_sections)
    /\ \A k \in 1..(Len(Removals) - 1) : Removals[k].a > Removals[k + 1].a
    /\ Len(output_lines) = Len(lines) - SumSizes(remove_sections, 1)
    /\ Range(output_lines) = {lines[k + 1] : k \in (0..(Len(lines) - 1)) \ Covered(remove_sections)}
    /\ \A k \in 1..(Len(output_lines) - 1) : output_lines[k].no < output_lines[k + 1].no

\* Two non-overlapping spans, the lower one recorded first, have been deleted.
C1_Witness ==
  /\ pc = "done"
  /\ Len(remove_sections) >= 2
  /\ NonOverlapping(remove_sections)
  /\ CollectedStarts[1] < CollectedStarts[2]
  /\ Len(ui_cpp) > 0


(***************************************************************************)
(* The block of target t, brace by brace.                                  *)
(***************************************************************************)
\* The least of a set of places.
Earliest(S) == CHOOSE o \in S : \A q \in S : o = q \/ Before(o, q)

\* How many braces are open just after place pos, counted from the opening
\* brace first.
Depth(opens, closes, first, pos) ==
  LET upto(S) == {b \in S : (b = first \/ Before(first, b)) /\ (b = pos \/ Before(b, pos))}
  IN Cardinality(upto(opens)) - Cardinality(upto(closes))

\* The closing braces that bring the balance, opened at first, back to zero.
Closers(opens, closes, first) ==
  {c \in closes : Before(first, c) /\ Depth(opens, closes, first, c) = 0}

\* The block of target t in its scan window:
\*   balanced      the signature line is followed by a balanced brace structure
\*   first         the block's first opening brace
\*   close         the closing brace that first brings the balance to zero
\*   noEarlyClose  no closing brace stands between the start of the signature
\*                 line and the first opening brace
\*   tailBalanced  the braces after the closing brace on its line balance out
Block(t) ==
  IF ~HasSignature(t)
  THEN [balanced |-> FALSE, first |-> <<0, 0>>, close |-> <<0, 0>>,
        noEarlyClose |-> FALSE, tailBalanced |-> FALSE]
  ELSE
  LET opens == BracePositions(t, "{")
      closes == BracePositions(t, "}")
  IN IF opens = {}
     THEN [balanced |-> FALSE, first |-> <<0, 0>>, close |-> <<0, 0>>,
           noEarlyClose |-> FALSE, tailBalanced |-> FALSE]
     ELSE
     LET first == Earliest(opens)
         closers == Closers(opens, closes, first)
     IN IF closers = {}
        THEN [balanced |-> FALSE, first |-> first, close |-> <<0, 0>>,
              noEarlyClose |-> FALSE, tailBalanced |-> FALSE]
        ELSE
        LET close == Earliest(closers)
            after(S) == {b \in S : b[1] = close[1] /\ Before(close, b)}
        IN [balanced |-> TRUE, first |-> first, close |-> close,
            noEarlyClose |-> \A c \in closes : Before(first, c),
            tailBalanced |-> Cardinality(after(opens)) = Cardinality(after(closes))]

BracesToEnd(t, brace) ==
  UNION {{<<k, p>> : p \in {q \in 1..Len(lines[k + 1].text) : lines[k + 1].text[q] = brace}} :
           k \in SigLine(t)..(Len(lines) - 1)}

\* From the signature line of target t on, every closing brace closes an open
\* one and every opening brace is closed.
WellFormed(t) ==
  LET opens == BracesToEnd(t, "{")
      closes == BracesToEnd(t, "}")
      upto(S, pos) == {b \in S : b = pos \/ Before(b, pos)}
  IN /\ Cardinality(opens) = Cardinality(closes)
     /\ \A c \in closes : Cardinality(upto(closes, c)) <= Cardinality(upto(opens, c))

C10_BoundedWindow ==
  /\ pc = "scan" =>
       /\ Has(lines[i + 1], Signature[target])
       /\ i <= j /\ j < i + Window[target] /\ j < Len(lines)
  /\ pc = "done" =>
       \A t \in Targets :
         LET zero == IF HasSignature(t) THEN ZeroLines(t) ELSE {}
         IN /\ Recorded(t) <=> zero # {}
            /\ Cardinality(FoundMsgs(t)) <= 1
            /\ Recorded(t) =>
                 LET span == SpanOf(t)
                 IN /\ span[1] = SigLine(t)
                    /\ span[2] - 1 \in zero
                    /\ \A z \in zero : span[2] - 1 <= z
                    /\ 0 <= span[1] /\ span[1] < span[2]
                    /\ span[2] <= Len(lines)
                    /\ span[2] - span[1] <= Window[t]
  /\ Len(remove_sections) = Cardinality({t \in Targets : Recorded(t)})

\* A block closes on the line after the last line of its window, and no span
\* is recorded for it.
C10_Witness ==
  /\ pc = "done"
  /\ \E t \in Targets :
       /\ HasSignature(t)
       /\ ~Recorded(t)
       /\ SigLine(t) + Window[t] < Len(lines)
       /\ Has(lines[SigLine(t) + Window[t] + 1], "}")
       /\ Has(lines[SigLine(t) + 1], "{")

\* C4: when a target's signature is missing or its end is not found, the run
\* leaves src/UI.cpp as it was.
C4_BoundaryFailureIsAtomic ==
  (pc = "done" /\ \E t \in Targets : ~Recorded(t)) => ui_cpp = lines

\* C5: when two of the recorded spans overlap, nothing is deleted and
\* src/UI.cpp is left as it was.
C5_OverlapRejected ==
  (pc \in {"write", "done"} /\ ~NonOverlapping(remove_sections)) =>
    (output_lines = lines /\ ui_cpp = lines)

\* The lines of the original src/UI.cpp that extract_canvas.py copied.
ExtractedNos == {canvas_cpp[k].no : k \in 1..Len(canvas_cpp)} \ {-1}

\* The lines of the original src/UI.cpp that clean_ui.py deleted.
ExcisedNos == {lines[k].no : k \in 1..Len(lines)} \ {ui_cpp[k].no : k \in 1..Len(ui_cpp)}

\* C6: the lines extracted are the lines excised.
C6_ExtractExciseRoundTrip == pc = "done" => ExtractedNos = ExcisedNos

\* C9: CanvasPanel.cpp holds one line for each extracted line, and a line of
\* it that holds the marker is a placeholder comment.
C9_DeferCoversEveryLine ==
  pc # "extract" =>
    /\ Len(canvas_cpp) = Len(Header) + Len(Middle) + 1 + Len(Footer)
                           + Len(helper_lines(ui_cpp)) + Len(detect_lines(ui_cpp))
                           + Len(render_lines(ui_cpp))
    /\ \A k \in 1..Len(canvas_cpp) :
         Has(canvas_cpp[k], ToastMarker) => canvas_cpp[k].text[1] = ToastPlaceholder


(***************************************************************************)
(* update_refs.py.  A text is a sequence of characters.                    *)
(***************************************************************************)
\* The most chunks an input text is made of.
MaxChunks == 3

\* How many times the script is run on the file.
MaxRuns == 2

moved_vars ==
  << <<"c", "u", "r", "r", "e", "n", "t", "T", "o", "o", "l">>,
     <<"s", "e", "l", "e", "c", "t", "e", "d", "T", "i", "l", "e", "I", "d">>,
     <<"h", "o", "v", "e", "r", "e", "d", "T", "i", "l", "e", "X">>,
     <<"h", "o", "v", "e", "r", "e", "d", "T", "i", "l", "e", "Y">>,
     <<"i", "s", "H", "o", "v", "e", "r", "i", "n", "g", "C", "a", "n", "v", "a", "s">>,
     <<"i", "s", "S", "e", "l", "e", "c", "t", "i", "n", "g">>,
     <<"s", "e", "l", "e", "c", "t", "i", "o", "n", "S", "t", "a", "r", "t", "X">>,
     <<"s", "e", "l", "e", "c", "t", "i", "o", "n", "S", "t", "a", "r", "t", "Y">>,
     <<"s", "e", "l", "e", "c", "t", "i", "o", "n", "E", "n", "d", "X">>,
     <<"s", "e", "l", "e", "c", "t", "i", "o", "n", "E", "n", "d", "Y">>,
     <<"i", "s", "P", "a", "i", "n", "t", "i", "n", "g">>,
     <<"l", "a", "s", "t", "P", "a", "i", "n", "t", "e", "d", "T", "i", "l", "e", "X">>,
     <<"l", "a", "s", "t", "P", "a", "i", "n", "t", "e", "d", "T", "i", "l", "e", "Y">>,
     <<"c", "u", "r", "r", "e", "n", "t", "P", "a", "i", "n", "t", "C", "h", "a", "n", "g", "e", "s">>,
     <<"t", "w", "o", "F", "i", "n", "g", "e", "r", "E", "r", "a", "s", "e", "A", "c", "t", "i", "v", "e">>,
     <<"i", "s", "M", "o", "d", "i", "f", "y", "i", "n", "g", "E", "d", "g", "e", "s">>,
     <<"c", "u", "r", "r", "e", "n", "t", "E", "d", "g", "e", "C", "h", "a", "n", "g", "e", "s">>,
     <<"s", "e", "l", "e", "c", "t", "e", "d", "I", "c", "o", "n", "N", "a", "m", "e">>,
     <<"m", "a", "r", "k", "e", "r", "L", "a", "b", "e", "l">>,
     <<"m", "a", "r", "k", "e", "r", "C", "o", "l", "o", "r">>,
     <<"m", "a", "r", "k", "e", "r", "C", "o", "l", "o", "r", "H", "e", "x">>,
     <<"s", "e", "l", "e", "c", "t", "e", "d", "M", "a", "r", "k", "e", "r">>,
     <<"h", "o", "v", "e", "r", "e", "d", "M", "a", "r", "k", "e", "r">>,
     <<"i", "s", "D", "r", "a", "g", "g", "i", "n", "g", "M", "a", "r", "k", "e", "r">>,
     <<"d", "r", "a", "g", "S", "t", "a", "r", "t", "X">>,
     <<"d", "r", "a", "g", "S", "t", "a", "r", "t", "Y">>,
     <<"c", "o", "p", "i", "e", "d", "M", "a", "r", "k", "e", "r", "s">>,
     <<"h", "o", "v", "e", "r", "e", "d", "E", "d", "g", "e">>,
     <<"i", "s", "H", "o", "v", "e", "r", "i", "n", "g", "E", "d", "g", "e">>,
     <<"e", "y", "e", "d", "r", "o", "p", "p", "e", "r", "A", "u", "t", "o", "S", "w", "i", "t", "c", "h", "T", "o", "P", "a", "i", "n", "t">>,
     <<"l", "a", "s", "t", "T", "o", "o", "l">>,
     <<"s", "e", "l", "e", "c", "t", "e", "d", "R", "o", "o", "m", "I", "d">>,
     <<"r", "o", "o", "m", "P", "a", "i", "n", "t", "M", "o", "d", "e">>,
     <<"s", "h", "o", "w", "R", "o", "o", "m", "O", "v", "e", "r", "l", "a", "y", "s">>,
     <<"i", "s", "P", "a", "i", "n", "t", "i", "n", "g", "R", "o", "o", "m", "C", "e", "l", "l", "s">>,
     <<"l", "a", "s", "t", "R", "o", "o", "m", "P", "a", "i", "n", "t", "X">>,
     <<"l", "a", "s", "t", "R", "o", "o", "m", "P", "a", "i", "n", "t", "Y">>,
     <<"c", "u", "r", "r", "e", "n", "t", "R", "o", "o", "m", "A", "s", "s", "i", "g", "n", "m", "e", "n", "t", "s">>,
     <<"e", "r", "a", "s", "e", "r", "B", "r", "u", "s", "h", "S", "i", "z", "e">> >>

ToolEnum == <<"T", "o", "o", "l", ":", ":">>
ToolEnumQualified == <<"C", "a", "n", "v", "a", "s", "P", "a", "n", "e", "l", ":", ":", "T", "o", "o", "l", ":", ":">>
Qualifier == <<"m", "_", "c", "a", "n", "v", "a", "s", "P", "a", "n", "e", "l", ".">>

\* The characters \w matches.
WordChars ==
  { "a", "b", "c", "d", "e", "f", "g", "h", "i", "j", "k", "l", "m", "n",
     "o", "p", "q", "r", "s", "t", "u", "v", "w", "x", "y", "z", "A", "B",
     "C", "D", "E", "F", "G", "H", "I", "J", "K", "L", "M", "N", "O", "P",
     "Q", "R", "S", "T", "U", "V", "W", "X", "Y", "Z", "0", "1", "2", "3",
     "4", "5", "6", "7", "8", "9", "_" }

\* Position p (1-based) of text s holds a character of a word.
IsWord(s, p) == p >= 1 /\ p <= Len(s) /\ s[p] \in WordChars

\* The literal pat stands at position p of s.
MatchAt(s, p, pat) ==
  /\ p + Len(pat) - 1 <= Len(s)
  /\ \A k \in 1..Len(pat) : s[p + k - 1] = pat[k]

\* \b at position p: between s[p - 1] and s[p]
WordBoundary(s, p) == IsWord(s, p - 1) # IsWord(s, p)

\* (?<!lit) at position p
NotPrecededBy(s, p, lit) == ~(p - Len(lit) >= 1 /\ MatchAt(s, p - Len(lit), lit))

\* The pattern of a moved variable, matched without its first \b.
PatternAtNoBoundary(s, p, var) ==
  /\ MatchAt(s, p, var)
  /\ WordBoundary(s, p + Len(var))
  /\ NotPrecededBy(s, p, <<".">>)
  /\ NotPrecededBy(s, p, Qualifier)

\* r'(?<!m_canvasPanel\.)(?<!\.)\b' + var + r'\b' matches at position p: the
\* name stands there, between two word boundaries, and neither look-behind
\* finds its text before it (the conjuncts are all tests at fixed places, so
\* their order does not matter; the name is compared first)
PatternAt(s, p, var) ==
  /\ MatchAt(s, p, var)
  /\ WordBoundary(s, p)
  /\ WordBoundary(s, p + Len(var))
  /\ NotPrecededBy(s, p, <<".">>)
  /\ NotPrecededBy(s, p, Qualifier)

\* The leftmost of the positions hits, or 0 when there is none.
Leftmost(hits) ==
  IF hits = {} THEN 0 ELSE CHOOSE q \in hits : \A r \in hits : q <= r

\* content.replace(old, new): the non-overlapping occurrences, leftmost first
RECURSIVE ReplaceFrom(_, _, _, _)
ReplaceFrom(s, p, old, new) ==
  LET q == Leftmost({x \in p..Len(s) : MatchAt(s, x, old)})
  IN IF q = 0 THEN SubSeq(s, p, Len(s))
     ELSE SubSeq(s, p, q - 1) \o new \o ReplaceFrom(s, q + Len(old), old, new)

StrReplace(s, old, new) == ReplaceFrom(s, 1, old, new)

\* re.sub(pattern, 'm_canvasPanel.' + var, content)
RECURSIVE SubFrom(_, _, _)
SubFrom(s, p, var) ==
  LET q == Leftmost({x \in p..Len(s) : PatternAt(s, x, var)})
  IN IF q = 0 THEN SubSeq(s, p, Len(s))
     ELSE SubSeq(s, p, q - 1) \o Qualifier \o var \o SubFrom(s, q + Len(var), var)

ReSub(s, var) == SubFrom(s, 1, var)

\* for var in moved_vars[k..]: content = re.sub(...)
\* (testing the length of a pass's result makes the pass complete before the
\* next one starts, as in the loop; an empty text stays empty)
RECURSIVE QualifyFrom(_, _)
QualifyFrom(s, k) ==
  IF k > Len(moved_vars) THEN s
  ELSE LET r == ReSub(s, moved_vars[k])
       IN IF Len(r) = 0 THEN r ELSE QualifyFrom(r, k + 1)

QualifyAll(s) == QualifyFrom(s, 1)

ReadAndReplaceEnum ==
  /\ pc = "refs_read"
  /\ runs < MaxRuns
  /\ content' = StrReplace(ui_text, ToolEnum, ToolEnumQualified)
  /\ loop_input' = content'
  /\ pc' = "refs_loop"
  /\ UNCHANGED <<ui_text, runs>>
  /\ UNCHANGED cleanVars

QualifyMovedVars ==
  /\ pc = "refs_loop"
  /\ content' = QualifyAll(content)
  /\ pc' = "refs_write"
  /\ UNCHANGED <<ui_text, loop_input, runs>>
  /\ UNCHANGED cleanVars

WriteRefs ==
  /\ pc = "refs_write"
  /\ ui_text' = content
  /\ runs' = runs + 1
  /\ pc' = "refs_read"
  /\ UNCHANGED <<content, loop_input>>
  /\ UNCHANGED cleanVars

\* The pieces the input texts are made of.
Chunks ==
  { <<"T", "o", "o", "l">>,
    <<":", ":">>,
    <<".">>,
    <<"l", "a", "s", "t", "T", "o", "o", "l">>,
    <<"i", "s", "P", "a", "i", "n", "t", "i", "n", "g">>,
    <<"m", "_", "c", "a", "n", "v", "a", "s", "P", "a", "n", "e", "l">>,
    <<"x">> }

RECURSIVE Flatten(_)
Flatten(chunks) == IF chunks = <<>> THEN <<>> ELSE Head(chunks) \o Flatten(Tail(chunks))

Texts == {Flatten(c) : c \in UNION {[1..n -> Chunks] : n \in 0..MaxChunks}}

InitRefs ==
  /\ ui_text \in Texts
  /\ content = <<>>
  /\ loop_input = <<>>
  /\ runs = 0
  /\ pc = "refs_read"
  /\ ui_cpp = <<>>
  /\ canvas_cpp = <<>>
  /\ lines = <<>>
  /\ remove_sections = <<>>
  /\ target = 1
  /\ i = 0
  /\ j = 0
  /\ brace_count = 0
  /\ found_open = FALSE
  /\ output_lines = <<>>
  /\ stdout = <<>>

NextRefs ==
  \/ ReadAndReplaceEnum
  \/ QualifyMovedVars
  \/ WriteRefs

SpecRefs == InitRefs /\ [][NextRefs]_vars


(***************************************************************************)
(* What the claims about update_refs.py speak of.                          *)
(***************************************************************************)
\* Text out is text s with ins inserted before each position of P, and
\* nothing else changed.
InsertedAt(s, P, ins, out) ==
  LET shift(q) == Len(ins) * Cardinality({p \in P : p <= q})
  IN /\ Len(out) = Len(s) + Len(ins) * Cardinality(P)
     /\ \A q \in 1..Len(s) : out[q + shift(q)] = s[q]
     /\ \A p \in P : \A k \in 1..Len(ins) : out[p + shift(p) - Len(ins) + k - 1] = ins[k]

\* The positions where a moved variable stands as a whole word.
WholeWordOccurrences(s) ==
  {p \in 1..Len(s) :
     \E v \in Range(moved_vars) :
       MatchAt(s, p, v) /\ ~IsWord(s, p - 1) /\ ~IsWord(s, p + Len(v))}

\* Those of them that no '.' precedes.
Undotted(s) == {p \in WholeWordOccurrences(s) : ~(p > 1 /\ s[p - 1] = ".")}

\* Those of them that 'm_canvasPanel.' does not precede.
Unqualified(s) ==
  {p \in WholeWordOccurrences(s) :
     ~(p > Len(Qualifier) /\ SubSeq(s, p - Len(Qualifier), p - 1) = Qualifier)}

\* The positions where 'Tool::' stands with Tool a whole identifier.
WholeToolEnum(s) == {p \in 1..Len(s) : MatchAt(s, p, ToolEnum) /\ ~IsWord(s, p - 1)}

\* What line 53 puts before 'Tool::'.
EnumPrefix == SubSeq(ToolEnumQualified, 1, Len(ToolEnumQualified) - Len(ToolEnum))

\* C2: a run of the script on its own output changes nothing.
C2_Idempotent == (pc = "refs_write" /\ runs >= 1) => content = ui_text

\* C7, as amended: the loop puts 'm_canvasPanel.' before every whole-word
\* occurrence of a moved variable that no '.' precedes, and changes nothing
\* else; after it every whole-word occurrence of a moved variable has a '.'
\* before it.
C7_QualifiesUndotted ==
  pc = "refs_write" =>
    /\ InsertedAt(loop_input, Undotted(loop_input), Qualifier, content)
    /\ \A p \in WholeWordOccurrences(content) : p > 1 /\ content[p - 1] = "."

\* C7 as claimed: the loop puts 'm_canvasPanel.' before every whole-word
\* occurrence that 'm_canvasPanel.' does not precede, whatever precedes it;
\* after it no whole-word occurrence lacks that qualifier.
C7_QualifiesAll ==
  pc = "refs_write" =>
    /\ InsertedAt(loop_input, Unqualified(loop_input), Qualifier, content)
    /\ Unqualified(content) = {}

\* The loop has qualified one occurrence and left alone one that follows
\* a '.'.
C7_Witness ==
  /\ pc = "refs_write"
  /\ Undotted(loop_input) # {}
  /\ WholeWordOccurrences(loop_input) \ Undotted(loop_input) # {}
  /\ content # loop_input

\* C8: both substitutions insert their prefix only before whole identifiers,
\* and change nothing else.
C8_WholeWordsOnly ==
  pc = "refs_write" =>
    /\ \E P \in SUBSET WholeToolEnum(ui_text) :
         InsertedAt(ui_text, P, EnumPrefix, loop_input)
    /\ \E P \in SUBSET WholeWordOccurrences(loop_input) :
         InsertedAt(loop_input, P, Qualifier, content)

====
